---- MODULE Spec2Model ----
(***************************************************************************)
(* A model of squelch, a push-to-talk radio simulator:                     *)
(*   - the playback pacing buffer (src/src/jitter.rs),                     *)
(*   - the relay server's ingress and mixing threads (src/src/server.rs),   *)
(*   - the client session loop (src/src/bin/client.rs) with the effects    *)
(*     engine it drives (src/src/fx.rs).                                    *)
(* Each component has its own specification (SpecJitter, SpecRelay,        *)
(* SpecClient, SpecClientRx); the variables of the other components stay   *)
(* unchanged.                                                              *)
(***************************************************************************)
EXTENDS Integers, Sequences, FiniteSets, TLC

(***************************************************************************)
(* Bounds of the model.                                                    *)
(***************************************************************************)
\* largest capacity a JitterBuffer is constructed with
MaxCapacity == 3
\* number of push_and_drain calls explored
MaxPushes == 5
\* the values pushed are 1..MaxValue
MaxValue == 2
\* samples per block (lib.rs:8 sets 256; the model keeps blocks short)
TX_BUFFER_SIZE == 2
\* number of datagrams the relay receives
MaxRecv == 3
\* number of datagrams delivered to the client's socket
MaxNet == 2
\* number of times push-to-talk is pressed
MaxPresses == 1
\* ... and once the microphone has delivered samples
MaxTxPresses == 2
\* number of microphone samples captured while push-to-talk is held
MaxMicSamples == 5

(***************************************************************************)
(* Program constants.                                                      *)
(***************************************************************************)
\* the sample value 1.0: samples are fixed-point, in thousandths
One == 1000
\* an f32 is encoded in four bytes
F32_BYTES == 4
\* receive buffers hold 4 * TX_BUFFER_SIZE + 8 bytes
MAX_PACKET_SIZE == F32_BYTES * TX_BUFFER_SIZE + 8
\* squelch() returns 8 blocks
SQUELCH_LENGTH == 8
\* the noise phase, in thousandths, advances by 0.005 per sample in run and by
\* 0.03 per sample in squelch
RUN_STEP == 5
SQUELCH_STEP == 30
\* default of --distortion, 0.05
DISTORTION == 50

VARIABLES
  \* ---- JitterBuffer<T> (jitter.rs:1-4) ----
  jb_capacity,   \* field capacity
  jb_buffer,     \* field buffer
  jb_ret,        \* the value returned by the last push_and_drain call
  jb_prev,       \* history: field buffer as it was before the last call
  jb_pushed,     \* history: every value pushed so far, in order
  jb_drained,    \* history: the concatenation of every batch returned so far
  \* ---- relay (server.rs) ----
  client_chunks, \* mixing thread: HashMap<SocketAddr, VecDeque<block>>
  ping_ch,       \* channel ping_tx -> ping_rx
  audio_ch,      \* channel audio_tx -> audio_rx
  rx_buf,        \* ingress thread: buf, the receive buffer it decodes from
  rx_len,        \* ingress thread: the length recv_from returned (ignored)
  rx_count,      \* number of datagrams received so far
  mix_pc,        \* mixing thread: position in its loop
  elapsed,       \* last_sent.elapsed() > wait_duration
  mix_buf,       \* mixing thread: buf, the block mixed by the last tick
  popped,        \* history: the (client, block) pairs the last tick popped
  bcast,         \* the datagrams the last tick sent, in sending order
  pinged,        \* history: the addresses the last ping drain took
  \* ---- client (bin/client.rs) ----
  args,          \* the parsed command line (no_fx, gain, distortion, mic_gain)
  ptt,           \* the shared AtomicBool
  c_pc,          \* session thread: position ("start", "edge", "branch", "dead")
  last_ptt,      \* session thread: last_ptt
  do_squelch,    \* session thread: do_squelch ("signal present")
  silent,        \* last_packet.elapsed() >= WAIT_DURATION.mul_f32(7.0)
  mic_buf,       \* session thread: mic_buf, the accumulator
  fx_unit,       \* session thread: fx_unit
  c_buf,         \* session thread: buf, the receive buffer it decodes from
  mic_ch,        \* channel mic_tx -> mic_rx (capture chunks)
  spk_ch,        \* channel spk_tx -> spk_rx (blocks enqueued for playback)
  sock_in,       \* datagrams waiting at the client's socket
  sock_out,      \* datagrams the client has sent, in order
  presses,       \* number of times push-to-talk was pressed so far
  net_count,     \* number of datagrams delivered to the socket so far
  mic_count,     \* number of microphone samples captured so far
  squelch_calls, \* history: number of calls of fx_unit.squelch()
  timeout_bursts, \* history: silence-timeout bursts since the last Audio arrival
  io_error,      \* history: the socket call that last failed other than by
                 \* would-block ("none", "send", "recv")
  tx_end,        \* history: "armed" while PTT is held after a press made
                 \* with signal-present set, then "released", then "burst"
                 \* and "two" as squelch() is called; "off" otherwise and
                 \* after an Audio arrival
  mic_press,     \* history: for each captured sample, the number of the
                 \* press during which it was captured
  mic_open,      \* the sender mic_tx of the capture channel still exists
  spk_open,      \* the receiver spk_rx of the playback channel still exists
  \* ---- codec (lib.rs) ----
  cd_packet,     \* a Packet value
  cd_bytes,      \* bytes: its encoding, possibly cut short or retagged
  cd_out,        \* what decoding cd_bytes returned
  cd_pc          \* "packet", "bytes", "damaged", "decoded", "rejected"

jvars == <<jb_capacity, jb_buffer, jb_ret, jb_prev, jb_pushed, jb_drained>>
rvars == <<client_chunks, ping_ch, audio_ch, rx_buf, rx_len, rx_count,
           mix_pc, elapsed, mix_buf, popped, bcast, pinged>>
dvars == <<cd_packet, cd_bytes, cd_out, cd_pc>>
cvars == <<args, ptt, c_pc, last_ptt, do_squelch, silent, mic_buf,
           fx_unit, c_buf, mic_ch, spk_ch, sock_in, sock_out, presses,
           net_count, mic_count, squelch_calls, timeout_bursts, io_error,
           tx_end, mic_press, mic_open, spk_open>>

(***************************************************************************)
(* JitterBuffer (jitter.rs)                                                *)
(***************************************************************************)
\* Option<Vec<T>>
None == [some |-> FALSE, items |-> <<>>]
Some(items) == [some |-> TRUE, items |-> items]

Values == 1..MaxValue

\* a slip of push_and_drain: the batch is drained only once the occupancy is
\* above the capacity
push_and_drain_gt(buffer, capacity, value) ==
  IF Len(buffer) > capacity
    THEN [buffer |-> <<value>>, ret |-> Some(buffer)]
    ELSE [buffer |-> Append(buffer, value), ret |-> None]

\* a slip of push_and_drain: the drained batch is returned but the new value
\* is lost
push_and_drain_lose(buffer, capacity, value) ==
  IF Len(buffer) >= capacity
    THEN [buffer |-> <<>>, ret |-> Some(buffer)]
    ELSE [buffer |-> Append(buffer, value), ret |-> None]

\* JitterBuffer::push_and_drain: the buffer afterwards and the value returned
push_and_drain(buffer, capacity, value) ==
  IF Len(buffer) >= capacity
    THEN [buffer |-> <<value>>, ret |-> Some(buffer)]
    ELSE [buffer |-> Append(buffer, value), ret |-> None]

\* JitterBuffer::new(capacity): an empty buffer of any capacity (usize)
JbInit ==
  /\ jb_capacity \in 0..MaxCapacity
  /\ jb_buffer = <<>>
  /\ jb_ret = None
  /\ jb_prev = <<>>
  /\ jb_pushed = <<>>
  /\ jb_drained = <<>>

\* one call buffer.push_and_drain(value)
JbPush(value) ==
  /\ Len(jb_pushed) < MaxPushes
  /\ LET r == push_and_drain(jb_buffer, jb_capacity, value) IN
       /\ jb_buffer' = r.buffer
       /\ jb_ret' = r.ret
       /\ jb_drained' = jb_drained \o r.ret.items
  /\ jb_prev' = jb_buffer
  /\ jb_pushed' = Append(jb_pushed, value)
  /\ UNCHANGED jb_capacity
  /\ UNCHANGED <<rvars, cvars, dvars>>

JbNext == \E value \in Values : JbPush(value)

(***************************************************************************)
(* Samples, blocks and the wire codec (lib.rs)                             *)
(***************************************************************************)
\* f32 NaN, by its bit pattern 0x7FC00000: no sample in thousandths is that
\* large
NaN == 2143289344

\* f32 addition: NaN if either side is NaN
FAdd(a, b) == IF a = NaN \/ b = NaN THEN NaN ELSE a + b

\* f32::clamp(-1.0, 1.0): NaN stays NaN
Clamp(s) ==
  IF s = NaN THEN NaN
  ELSE IF s > One THEN One ELSE IF s < -One THEN -One ELSE s

\* a sample within [-1, 1] (every comparison with NaN is false)
InUnit(v) == v # NaN /\ -One <= v /\ v <= One

\* TxBuffer = [f32; TX_BUFFER_SIZE]
Idx == 1..TX_BUFFER_SIZE
ZeroBlock == [i \in Idx |-> 0]
Tone(s) == [i \in Idx |-> s]
\* a block that is silent except for its last sample
TailBlock(s) == [i \in Idx |-> IF i = TX_BUFFER_SIZE THEN s ELSE 0]

\* a block that opens with NaN and holds s in its other samples
HotBlock(s) == [i \in Idx |-> IF i = 1 THEN NaN ELSE s]

\* enum Packet { Ping, Audio(TxBuffer) }
Ping == [tag |-> "Ping"]
Audio(samples) == [tag |-> "Audio", samples |-> samples]

Pow256(k) == IF k = 0 THEN 1 ELSE IF k = 1 THEN 256
             ELSE IF k = 2 THEN 65536 ELSE 16777216

\* a slip of the encoder: the bytes of a sample most significant first
SampleBytes_be(s) ==
  [k \in 1..F32_BYTES |->
     IF s >= 0 THEN (s \div Pow256(F32_BYTES - k)) % 256
               ELSE 255 - (((-(s + 1)) \div Pow256(F32_BYTES - k)) % 256)]

\* the four little-endian bytes of a sample (the fixed-point value in two's
\* complement stands for the IEEE bit pattern of the f32)
SampleBytes(s) ==
  [k \in 1..F32_BYTES |->
     IF s >= 0 THEN (s \div Pow256(k - 1)) % 256
               ELSE 255 - (((-(s + 1)) \div Pow256(k - 1)) % 256)]

\* the sample four little-endian bytes stand for
SampleOfBytes(b) ==
  IF b[F32_BYTES] >= 128
    THEN -1 - ((255 - b[1]) + (255 - b[2]) * 256 + (255 - b[3]) * 65536
               + (255 - b[4]) * 16777216)
    ELSE b[1] + b[2] * 256 + b[3] * 65536 + b[4] * 16777216

RECURSIVE BlockBytes(_, _)
\* the bytes of samples i.. of a block, in order, without a length prefix
BlockBytes(samples, i) ==
  IF i > Len(samples) THEN <<>>
  ELSE SampleBytes(samples[i]) \o BlockBytes(samples, i + 1)

\* bincode::encode_to_vec(packet, standard()): the variant index as one byte,
\* then the fixed-size array
Encode(packet) ==
  IF packet.tag = "Ping" THEN <<0>>
  ELSE <<1>> \o BlockBytes(packet.samples, 1)

\* bincode::decode_from_slice(bytes, standard()): the packet the leading bytes
\* hold, trailing bytes ignored; an error for an unknown variant index and for
\* a slice that ends before the packet does (no datagram of the model starts
\* with a multi-byte variant index, 251 or more)
Decode(bytes) ==
  IF Len(bytes) < 1 THEN [ok |-> FALSE]
  ELSE IF bytes[1] = 0 THEN [ok |-> TRUE, packet |-> Ping]
  ELSE IF bytes[1] = 1 THEN
    IF Len(bytes) < 1 + F32_BYTES * TX_BUFFER_SIZE THEN [ok |-> FALSE]
    ELSE [ok |-> TRUE,
          packet |-> Audio([i \in Idx |->
            SampleOfBytes(SubSeq(bytes, 2 + F32_BYTES * (i - 1),
                                 1 + F32_BYTES * i))])]
  ELSE [ok |-> FALSE]

(***************************************************************************)
(* Relay (server.rs)                                                       *)
(***************************************************************************)
\* the socket addresses datagrams come from
Addrs == {"A", "B"}

\* the blocks clients send: silence, 0.6, a block that is NaN in its first
\* sample and above full scale (1.5) in the others, and a block whose last
\* sample alone is -0.6
TestBlocks == {ZeroBlock, Tone(600), HotBlock(1500), TailBlock(-600)}

\* the well-formed datagrams: the encoding of a packet, whole
WellFormed == {Encode(Ping)} \cup {Encode(Audio(b)) : b \in TestBlocks}

\* malformed datagrams: a zero-length one, an Audio packet cut after its first
\* sample, and an unknown variant index
Malformed ==
  { <<>>, SubSeq(Encode(Audio(Tone(600))), 1, 1 + F32_BYTES), <<2>> }

TestDatagrams == WellFormed \cup Malformed

\* socket.recv_from(&mut buf): the datagram overwrites the head of the buffer
\* and the bytes behind it stay as they were
RecvInto(buf, datagram) ==
  [i \in 1..Len(buf) |-> IF i <= Len(datagram) THEN datagram[i] ELSE buf[i]]

\* every order a HashMap may iterate the keys S in
Orders(S) ==
  {o \in [1..Cardinality(S) -> S] : \A i, j \in DOMAIN o : i # j => o[i] # o[j]}

\* a slip of the mixing step: the running sum is not clamped
MixInto_noclamp(buf, samples) == [i \in Idx |-> FAdd(buf[i], samples[i])]

\* *b += s; *b = b.clamp(-1.0, 1.0) for every sample
MixInto(buf, samples) == [i \in Idx |-> Clamp(FAdd(buf[i], samples[i]))]

RECURSIVE MixLoop_back(_, _, _, _)
\* a slip of the mixing loop: pop_back instead of pop_front
MixLoop_back(chunks, buf, order, k) ==
  IF k > Len(order) THEN [chunks |-> chunks, buf |-> buf]
  ELSE LET a == order[k] IN
    IF chunks[a] # <<>>
      THEN MixLoop_back(
             [chunks EXCEPT ![a] = SubSeq(@, 1, Len(@) - 1)],
             MixInto(buf, chunks[a][Len(chunks[a])]), order, k + 1)
      ELSE MixLoop_back(chunks, buf, order, k + 1)

RECURSIVE MixLoop_evict(_, _, _, _)
\* a slip of the mixing loop: a client whose queue runs empty is dropped
MixLoop_evict(chunks, buf, order, k) ==
  IF k > Len(order) THEN [chunks |-> chunks, buf |-> buf]
  ELSE LET a == order[k] IN
    IF chunks[a] # <<>>
      THEN MixLoop_evict(
             IF Len(chunks[a]) = 1
               THEN [b \in DOMAIN chunks \ {a} |-> chunks[b]]
               ELSE [chunks EXCEPT ![a] = Tail(@)],
             MixInto(buf, Head(chunks[a])), order, k + 1)
      ELSE MixLoop_evict(chunks, buf, order, k + 1)

RECURSIVE MixLoop(_, _, _, _)
\* the loop over client_chunks.iter_mut() of one tick, clients visited in
\* `order` from position k: the queues and the mixed block afterwards
MixLoop(chunks, buf, order, k) ==
  IF k > Len(order) THEN [chunks |-> chunks, buf |-> buf]
  ELSE LET a == order[k] IN
    IF chunks[a] # <<>>
      THEN MixLoop([chunks EXCEPT ![a] = Tail(@)],
                   MixInto(buf, Head(chunks[a])), order, k + 1)
      ELSE MixLoop(chunks, buf, order, k + 1)

RECURSIVE PoppedBy(_, _, _)
\* the (client, block) pairs that loop pops, in visiting order
PoppedBy(chunks, order, k) ==
  IF k > Len(order) THEN <<>>
  ELSE IF chunks[order[k]] # <<>>
    THEN <<[src |-> order[k], samples |-> Head(chunks[order[k]])]>>
         \o PoppedBy(chunks, order, k + 1)
    ELSE PoppedBy(chunks, order, k + 1)

\* a slip of the silence test: only the first sample is looked at
AnyNonZero_first(buf) == buf[1] # 0

\* buf.iter().any(|a| *a != 0.0)
AnyNonZero(buf) == \E i \in Idx : buf[i] # 0

\* the loop over client_chunks.iter() sending Packet::Audio(buf) to each client
\* a relay that answers with Ping packets
Broadcast_ping(buf, order) ==
  [k \in 1..Len(order) |-> [dst |-> order[k], data |-> Encode(Ping)]]

Broadcast(buf, order) ==
  [k \in 1..Len(order) |-> [dst |-> order[k], data |-> Encode(Audio(buf))]]

\* a slip of the ping drain: insert(src, empty) in place of or_default()
RECURSIVE UpsertAll_reset(_, _)
UpsertAll_reset(chunks, pings) ==
  IF pings = <<>> THEN chunks
  ELSE LET src == Head(pings) IN
    UpsertAll_reset([a \in DOMAIN chunks \cup {src} |->
                       IF a = src THEN <<>> ELSE chunks[a]],
                    Tail(pings))

\* client_chunks.entry(src).or_default() for each address in the ping channel
RECURSIVE UpsertAll(_, _)
UpsertAll(chunks, pings) ==
  IF pings = <<>> THEN chunks
  ELSE LET src == Head(pings) IN
    UpsertAll(IF src \in DOMAIN chunks THEN chunks
              ELSE [a \in DOMAIN chunks \cup {src} |->
                      IF a = src THEN <<>> ELSE chunks[a]],
              Tail(pings))

RECURSIVE PushAll_front(_, _)
\* a slip of the audio drain: the block goes to the head of the queue
PushAll_front(chunks, audios) ==
  IF audios = <<>> THEN chunks
  ELSE LET src == Head(audios).src
           blk == Head(audios).samples IN
    PushAll_front([a \in DOMAIN chunks \cup {src} |->
                     IF a = src
                       THEN (IF src \in DOMAIN chunks
                               THEN <<blk>> \o chunks[src]
                               ELSE <<blk>>)
                       ELSE chunks[a]],
                  Tail(audios))

\* client_chunks.entry(src).and_modify(push_back).or_insert_with(..) for each
\* (src, block) in the audio channel
RECURSIVE PushAll(_, _)
PushAll(chunks, audios) ==
  IF audios = <<>> THEN chunks
  ELSE LET src == Head(audios).src
           blk == Head(audios).samples IN
    PushAll([a \in DOMAIN chunks \cup {src} |->
               IF a = src
                 THEN (IF src \in DOMAIN chunks THEN Append(chunks[src], blk)
                       ELSE <<blk>>)
                 ELSE chunks[a]],
            Tail(audios))

RelayInit ==
  /\ client_chunks = <<>>
  /\ ping_ch = <<>>
  /\ audio_ch = <<>>
  /\ rx_buf = [i \in 1..MAX_PACKET_SIZE |-> 0]
  /\ rx_len = 0
  /\ rx_count = 0
  /\ mix_pc = "pings"
  /\ elapsed = FALSE
  /\ mix_buf = ZeroBlock
  /\ popped = <<>>
  /\ bcast = <<>>
  /\ pinged = <<>>

\* ingress thread, one turn of its loop: receive a datagram into buf, decode
\* buf, forward a Ping or an Audio block over its channel, log a decode error
RelayRecv(src, datagram) ==
  /\ rx_count < MaxRecv
  /\ rx_count' = rx_count + 1
  /\ rx_len' = Len(datagram)
  /\ rx_buf' = RecvInto(rx_buf, datagram)
  /\ LET d == Decode(rx_buf') IN
       IF ~d.ok THEN UNCHANGED <<ping_ch, audio_ch>>
       ELSE IF d.packet.tag = "Ping"
         THEN ping_ch' = Append(ping_ch, src) /\ UNCHANGED audio_ch
         ELSE /\ audio_ch' = Append(audio_ch,
                                    [src |-> src, samples |-> d.packet.samples])
              /\ UNCHANGED ping_ch
  /\ UNCHANGED <<client_chunks, mix_pc, elapsed, mix_buf, popped, bcast,
                 pinged>>
  /\ UNCHANGED <<jvars, cvars, dvars>>

\* mixing thread, top of its loop: while let Ok(src) = ping_rx.try_recv()
\* (the block and the datagrams of the previous turn are gone)
MixDrainPings ==
  /\ mix_pc = "pings"
  /\ client_chunks' = UpsertAll(client_chunks, ping_ch)
  /\ ping_ch' = <<>>
  /\ mix_pc' = "audio"
  /\ mix_buf' = ZeroBlock
  /\ popped' = <<>>
  /\ bcast' = <<>>
  /\ pinged' = ping_ch
  /\ UNCHANGED <<audio_ch, rx_buf, rx_len, rx_count, elapsed>>
  /\ UNCHANGED <<jvars, cvars, dvars>>

\* mixing thread: while let Ok((src, bytes)) = audio_rx.try_recv()
MixDrainAudio ==
  /\ mix_pc = "audio"
  /\ client_chunks' = PushAll(client_chunks, audio_ch)
  /\ audio_ch' = <<>>
  /\ mix_pc' = "tick"
  /\ UNCHANGED <<ping_ch, rx_buf, rx_len, rx_count, elapsed, mix_buf, popped,
                 bcast, pinged>>
  /\ UNCHANGED <<jvars, cvars, dvars>>

\* a slip of the tick: the mix is not sent back to the clients whose block is
\* part of it
MixTick_noecho ==
  /\ mix_pc = "tick"
  /\ elapsed
  /\ \E order \in Orders(DOMAIN client_chunks) :
       LET m == MixLoop(client_chunks, ZeroBlock, order, 1)
           others == SelectSeq(order, LAMBDA a : client_chunks[a] = <<>>) IN
         /\ client_chunks' = m.chunks
         /\ mix_buf' = m.buf
         /\ popped' = PoppedBy(client_chunks, order, 1)
         /\ bcast' = IF AnyNonZero(m.buf) THEN Broadcast(m.buf, others) ELSE <<>>
  /\ elapsed' = FALSE
  /\ mix_pc' = "pings"
  /\ UNCHANGED <<ping_ch, audio_ch, rx_buf, rx_len, rx_count, pinged>>
  /\ UNCHANGED <<jvars, cvars, dvars>>

\* mixing thread: last_sent.elapsed() > wait_duration holds: pop and mix one
\* block per client, broadcast the mix unless it is all zero, restart the timer
MixTick ==
  /\ mix_pc = "tick"
  /\ elapsed
  /\ \E order \in Orders(DOMAIN client_chunks) :
       LET m == MixLoop(client_chunks, ZeroBlock, order, 1) IN
         /\ client_chunks' = m.chunks
         /\ mix_buf' = m.buf
         /\ popped' = PoppedBy(client_chunks, order, 1)
         /\ bcast' = IF AnyNonZero(m.buf) THEN Broadcast(m.buf, order) ELSE <<>>
  /\ elapsed' = FALSE
  /\ mix_pc' = "pings"
  /\ UNCHANGED <<ping_ch, audio_ch, rx_buf, rx_len, rx_count, pinged>>
  /\ UNCHANGED <<jvars, cvars, dvars>>

\* mixing thread: the period has not elapsed, the loop starts over
MixSkip ==
  /\ mix_pc = "tick"
  /\ ~elapsed
  /\ mix_pc' = "pings"
  /\ UNCHANGED <<client_chunks, ping_ch, audio_ch, rx_buf, rx_len, rx_count,
                 elapsed, mix_buf, popped, bcast, pinged>>
  /\ UNCHANGED <<jvars, cvars, dvars>>

\* wall-clock time passes the end of the mixing period
PeriodElapses ==
  /\ ~elapsed
  /\ elapsed' = TRUE
  /\ UNCHANGED <<client_chunks, ping_ch, audio_ch, rx_buf, rx_len, rx_count,
                 mix_pc, mix_buf, popped, bcast, pinged>>
  /\ UNCHANGED <<jvars, cvars, dvars>>

RelayNext ==
  \/ \E src \in Addrs, datagram \in TestDatagrams : RelayRecv(src, datagram)
  \/ MixDrainPings
  \/ MixDrainAudio
  \/ MixTick
  \/ MixSkip
  \/ PeriodElapses

(***************************************************************************)
(* FxUnit (fx.rs).  Samples are thousandths; the noise phase noise_idx is  *)
(* in thousandths too.                                                     *)
(***************************************************************************)

\* Fbm<Simplex>::get([p, p]) of the noise crate: a fixed, continuous function
\* of the phase with values in [-1, 1]; here a triangle wave through 0 at 0
Noise(p) ==
  LET q == (3 * p + One) % (4 * One)
  IN  IF q < 2 * One THEN q - One ELSE 3 * One - q

\* Coefficients::from_params(LowPass, 44100 Hz, 8000 Hz, Q_BUTTERWORTH),
\* normalised by a0, in thousandths
LowPassCoeffs == [b0 |-> 177, b1 |-> 354, b2 |-> 177, a1 |-> -509, a2 |-> 218]

\* Coefficients::from_params(HighPass, 44100 Hz, 400 Hz, Q_BUTTERWORTH)
HighPassCoeffs ==
  [b0 |-> 961, b1 |-> -1921, b2 |-> 961, a1 |-> -1919, a2 |-> 923]

\* DirectForm1::new: cleared delay lines
Df1New == [x1 |-> 0, x2 |-> 0, y1 |-> 0, y2 |-> 0]

\* DirectForm1::run: one sample through a biquad section
Df1Run(c, st, x) ==
  LET y == (c.b0 * x + c.b1 * st.x1 + c.b2 * st.x2
            - c.a1 * st.y1 - c.a2 * st.y2) \div One
  IN  [y |-> y, st |-> [x1 |-> x, x2 |-> st.x1, y1 |-> y, y2 |-> st.y1]]

\* FxUnit::new(disabled, signal_gain, distortion)
FxNew(disabled, signal_gain, distortion) ==
  [disabled |-> disabled, noise_idx |-> 0,
   lowpass |-> Df1New, highpass |-> Df1New,
   signal_gain |-> signal_gain, distortion |-> distortion]

\* clamp(-d, d)
ClampTo(s, d) == IF s < -d THEN -d ELSE IF s > d THEN d ELSE s

\* the second loop of run: distortion, gain, noise, clamp of one sample
Distort(fx, s, n) ==
  LET s1 == (ClampTo(s, fx.distortion) * 400) \div fx.distortion
      s2 == (s1 * fx.signal_gain) \div One
      s3 == s2 + (n * 3) \div 10
  IN  Clamp(s3)

\* the third loop of run: samples i..N through lowpass then highpass
RECURSIVE FilterFrom(_, _, _, _)
FilterFrom(lp, hp, samples, i) ==
  IF i > TX_BUFFER_SIZE
  THEN [lowpass |-> lp, highpass |-> hp, samples |-> samples]
  ELSE LET l == Df1Run(LowPassCoeffs, lp, samples[i])
           h == Df1Run(HighPassCoeffs, hp, l.y)
       IN  FilterFrom(l.st, h.st, [samples EXCEPT ![i] = h.y], i + 1)

\* a slip of run(): the noise phase starts over after each block
FxRun_reset(fx, samples) ==
  IF ~fx.disabled
  THEN LET noise == [i \in Idx |-> Noise(fx.noise_idx + (i - 1) * RUN_STEP)]
           dist  == [i \in Idx |-> Distort(fx, samples[i], noise[i])]
           f     == FilterFrom(fx.lowpass, fx.highpass, dist, 1)
       IN  [fx |-> [fx EXCEPT !.noise_idx = 0,
                              !.lowpass = f.lowpass,
                              !.highpass = f.highpass],
            samples |-> f.samples]
  ELSE [fx |-> fx,
        samples |-> [i \in Idx |-> Clamp((samples[i] * fx.signal_gain) \div One)]]

\* a slip of run(): the noise phase advances with effects disabled too
FxRun_phase(fx, samples) ==
  LET noise == [i \in Idx |-> Noise(fx.noise_idx + (i - 1) * RUN_STEP)]
      dist  == [i \in Idx |-> Distort(fx, samples[i], noise[i])]
      f     == FilterFrom(fx.lowpass, fx.highpass, dist, 1)
      fx1   == [fx EXCEPT !.noise_idx = @ + TX_BUFFER_SIZE * RUN_STEP]
  IN  IF ~fx.disabled
      THEN [fx |-> [fx1 EXCEPT !.lowpass = f.lowpass,
                               !.highpass = f.highpass],
            samples |-> f.samples]
      ELSE [fx |-> fx1,
            samples |->
              [i \in Idx |-> Clamp((samples[i] * fx.signal_gain) \div One)]]

\* FxUnit::run(samples): the unit afterwards and the processed block
FxRun(fx, samples) ==
  IF ~fx.disabled
  THEN LET noise == [i \in Idx |-> Noise(fx.noise_idx + (i - 1) * RUN_STEP)]
           dist  == [i \in Idx |-> Distort(fx, samples[i], noise[i])]
           f     == FilterFrom(fx.lowpass, fx.highpass, dist, 1)
       IN  [fx |-> [fx EXCEPT !.noise_idx = @ + TX_BUFFER_SIZE * RUN_STEP,
                              !.lowpass = f.lowpass,
                              !.highpass = f.highpass],
            samples |-> f.samples]
  ELSE [fx |-> fx,
        samples |-> [i \in Idx |-> Clamp((samples[i] * fx.signal_gain) \div One)]]

\* the loop of squelch: k more blocks appended to chunks
RECURSIVE SquelchLoop(_, _, _)
SquelchLoop(fx, chunks, k) ==
  IF k = 0
  THEN [fx |-> fx, chunks |-> chunks]
  ELSE LET noise_buf ==
             [i \in Idx |->
                Noise(fx.noise_idx + (i - 1) * SQUELCH_STEP) \div 10]
           fx1 == [fx EXCEPT !.noise_idx = @ + TX_BUFFER_SIZE * SQUELCH_STEP]
           r   == FxRun(fx1, noise_buf)
       IN  SquelchLoop(r.fx, Append(chunks, r.samples), k - 1)

\* squelch() without the test of the disabled flag
FxSquelch_nodisable(fx) ==
  SquelchLoop(fx, <<>>, SQUELCH_LENGTH)

\* FxUnit::squelch(): the unit afterwards and the returned blocks
FxSquelch(fx) ==
  IF ~fx.disabled
  THEN SquelchLoop(fx, <<>>, SQUELCH_LENGTH)
  ELSE [fx |-> fx, chunks |-> <<>>]

(***************************************************************************)
(* Client (bin/client.rs): the session thread, the push-to-talk input, the *)
(* audio callbacks and the network.  The client is followed until its      *)
(* session thread panics (c_pc = "dead").                                  *)
(***************************************************************************)

\* the history of a transmission's end after one more call of squelch()
AfterSquelch(t) ==
  IF t = "released" THEN "burst" ELSE IF t = "burst" THEN "two" ELSE t

\* spk_tx.send(chunk).unwrap() for every chunk of chunks: where the session
\* thread is afterwards, next or, the receiver being gone, panicked
SpkSend(chunks, next) ==
  IF chunks # <<>> /\ ~spk_open THEN "dead" ELSE next

\* the command lines explored: the defaults, with and without --no-fx
ArgsChoices ==
  {[no_fx |-> b, gain |-> One, distortion |-> DISTORTION, mic_gain |-> One] :
     b \in BOOLEAN}

\* the command lines explored for the effects engine: --gain 1 and --gain 2,
\* with and without --no-fx
FxArgsChoices ==
  {[no_fx |-> b, gain |-> g, distortion |-> DISTORTION, mic_gain |-> One] :
     b \in BOOLEAN, g \in {One, 2 * One}}

\* what a non-blocking send_to can do: send the datagram, report WouldBlock
\* (which map_would_block turns into Ok(None)), or fail otherwise
SendOutcomes == {"ok", "wouldblock", "error"}

\* the errors a non-blocking recv_from can return: WouldBlock or another one
RecvErrors == {"wouldblock", "error"}

\* the datagrams that may arrive at the client's socket
NetDatagrams ==
  {Encode(Audio(Tone(600))), Encode(Ping), <<>>, <<2>>}

\* the k-th sample the microphone captures
MicSignal(k) == ((k * 900) % 2600) - 1300

\* the sizes in which the capture callback hands over samples
ChunkSizes == 1..(TX_BUFFER_SIZE + 1)

\* the client as constructed from the command line a
ClientInitOf(a) ==
  /\ args = a
  /\ ptt = FALSE
  /\ c_pc = "start"
  /\ last_ptt = FALSE
  /\ do_squelch = FALSE
  /\ silent = FALSE
  /\ mic_buf = <<>>
  /\ fx_unit = FxNew(args.no_fx, args.gain, args.distortion)
  /\ c_buf = [i \in 1..MAX_PACKET_SIZE |-> 0]
  /\ mic_ch = <<>>
  /\ spk_ch = <<>>
  /\ sock_in = <<>>
  /\ sock_out = <<>>
  /\ presses = 0
  /\ net_count = 0
  /\ mic_count = 0
  /\ squelch_calls = 0
  /\ timeout_bursts = 0
  /\ io_error = "none"
  /\ tx_end = "off"
  /\ mic_press = <<>>
  /\ mic_open = TRUE
  /\ spk_open = TRUE

ClientInit == \E a \in ArgsChoices : ClientInitOf(a)

\* a session start that sends its Ping a second time
ClientStart_twice ==
  /\ c_pc = "start"
  /\ sock_out' = sock_out \o <<Encode(Ping), Encode(Ping)>>
  /\ c_pc' = "edge"
  /\ last_ptt' = FALSE
  /\ do_squelch' = FALSE
  /\ silent' = FALSE
  /\ mic_buf' = <<>>
  /\ UNCHANGED <<args, ptt, fx_unit, c_buf, mic_ch, spk_ch, sock_in, presses,
                 net_count, mic_count, squelch_calls, timeout_bursts,
                 io_error>>
  /\ UNCHANGED tx_end
  /\ UNCHANGED mic_press
  /\ UNCHANGED <<mic_open, spk_open>>
  /\ UNCHANGED <<jvars, rvars, dvars>>

\* the session thread up to its loop: the opening Ping
ClientStart ==
  /\ c_pc = "start"
  /\ \E outcome \in SendOutcomes :
       /\ sock_out' = IF outcome = "ok"
                      THEN Append(sock_out, Encode(Ping)) ELSE sock_out
       /\ c_pc' = IF outcome = "error" THEN "dead" ELSE "edge"
       /\ io_error' = IF outcome = "error" THEN "send" ELSE io_error
  /\ last_ptt' = FALSE
  /\ do_squelch' = FALSE
  /\ silent' = FALSE
  /\ mic_buf' = <<>>
  /\ UNCHANGED <<args, ptt, fx_unit, c_buf, mic_ch, spk_ch, sock_in, presses,
                 net_count, mic_count, squelch_calls, timeout_bursts>>
  /\ UNCHANGED tx_end
  /\ UNCHANGED mic_press
  /\ UNCHANGED <<mic_open, spk_open>>
  /\ UNCHANGED <<jvars, rvars, dvars>>

\* a slip of the edge detection: a burst on every change of the sampled PTT
ClientEdge_anyedge ==
  /\ c_pc = "edge"
  /\ LET new_ptt == ptt
         sq == FxSquelch(fx_unit)
     IN  /\ IF new_ptt # last_ptt
            THEN /\ fx_unit' = sq.fx
                 /\ spk_ch' = spk_ch \o sq.chunks
                 /\ squelch_calls' = squelch_calls + 1
                 /\ c_pc' = SpkSend(sq.chunks, "branch")
            ELSE /\ UNCHANGED <<fx_unit, spk_ch, squelch_calls>>
                 /\ c_pc' = "branch"
         /\ last_ptt' = new_ptt
  /\ UNCHANGED <<args, ptt, do_squelch, silent, mic_buf, c_buf, mic_ch,
                 sock_in, sock_out, presses, net_count, mic_count,
                 timeout_bursts, io_error>>
  /\ tx_end' = IF ptt # last_ptt THEN AfterSquelch(tx_end) ELSE tx_end
  /\ UNCHANGED mic_press
  /\ UNCHANGED <<mic_open, spk_open>>
  /\ UNCHANGED <<jvars, rvars, dvars>>

\* top of the loop: sample PTT, play the release burst on a falling edge
ClientEdge ==
  /\ c_pc = "edge"
  /\ LET new_ptt == ptt
         sq == FxSquelch(fx_unit)
     IN  /\ IF ~new_ptt /\ last_ptt
            THEN /\ fx_unit' = sq.fx
                 /\ spk_ch' = spk_ch \o sq.chunks
                 /\ squelch_calls' = squelch_calls + 1
                 /\ c_pc' = SpkSend(sq.chunks, "branch")
            ELSE /\ UNCHANGED <<fx_unit, spk_ch, squelch_calls>>
                 /\ c_pc' = "branch"
         /\ last_ptt' = new_ptt
  /\ UNCHANGED <<args, ptt, do_squelch, silent, mic_buf, c_buf, mic_ch,
                 sock_in, sock_out, presses, net_count, mic_count,
                 timeout_bursts, io_error>>
  /\ tx_end' = IF ~ptt /\ last_ptt THEN AfterSquelch(tx_end) ELSE tx_end
  /\ UNCHANGED mic_press
  /\ UNCHANGED <<mic_open, spk_open>>
  /\ UNCHANGED <<jvars, rvars, dvars>>

\* the k-th whole block of the accumulator after mic gain and clamp
MicBlock(all, k) ==
  [i \in Idx |->
     Clamp((all[(k - 1) * TX_BUFFER_SIZE + i] * args.mic_gain) \div One)]

\* the chunks_exact loop from block k on: what got sent, and whether an
\* unwrap panicked
RECURSIVE SendBlocks(_, _, _, _)
SendBlocks(all, outs, k, sent) ==
  IF k > Len(outs)
  THEN [sent |-> sent, panicked |-> FALSE]
  ELSE IF outs[k] = "error"
       THEN [sent |-> sent, panicked |-> TRUE]
       ELSE SendBlocks(all, outs, k + 1,
                       IF outs[k] = "ok"
                       THEN Append(sent, Encode(Audio(MicBlock(all, k))))
                       ELSE sent)

\* a slip of the transmit branch: the sent blocks stay in the accumulator
ClientTransmit_keep ==
  /\ c_pc = "branch"
  /\ ptt
  /\ IF mic_ch = <<>>
     THEN /\ c_pc' = IF mic_open THEN "edge" ELSE "dead"
          /\ UNCHANGED <<mic_buf, mic_ch, sock_out, io_error>>
     ELSE LET all == mic_buf \o Head(mic_ch)
              count == Len(all) \div TX_BUFFER_SIZE
          IN  \E outs \in [1..count -> SendOutcomes] :
                LET r == SendBlocks(all, outs, 1, sock_out)
                IN  /\ mic_ch' = Tail(mic_ch)
                    /\ sock_out' = r.sent
                    /\ mic_buf' = all
                    /\ c_pc' = IF r.panicked THEN "dead" ELSE "edge"
                    /\ io_error' = IF r.panicked THEN "send" ELSE io_error
  /\ UNCHANGED <<args, ptt, last_ptt, do_squelch, silent, fx_unit, c_buf,
                 spk_ch, sock_in, presses, net_count, mic_count,
                 squelch_calls, timeout_bursts>>
  /\ UNCHANGED tx_end
  /\ UNCHANGED mic_press
  /\ UNCHANGED <<mic_open, spk_open>>
  /\ UNCHANGED <<jvars, rvars, dvars>>

\* a slip of the transmit branch: a waiting datagram is taken off the socket
ClientTransmit_listen ==
  /\ c_pc = "branch"
  /\ ptt
  /\ IF mic_ch = <<>>
     THEN /\ c_pc' = IF mic_open THEN "edge" ELSE "dead"
          /\ UNCHANGED <<mic_buf, mic_ch, sock_out, io_error>>
     ELSE LET all == mic_buf \o Head(mic_ch)
              count == Len(all) \div TX_BUFFER_SIZE
          IN  \E outs \in [1..count -> SendOutcomes] :
                LET r == SendBlocks(all, outs, 1, sock_out)
                IN  /\ mic_ch' = Tail(mic_ch)
                    /\ sock_out' = r.sent
                    /\ mic_buf' = IF r.panicked THEN all
                                  ELSE SubSeq(all, count * TX_BUFFER_SIZE + 1,
                                              Len(all))
                    /\ c_pc' = IF r.panicked THEN "dead" ELSE "edge"
                    /\ io_error' = IF r.panicked THEN "send" ELSE io_error
  /\ sock_in' = IF sock_in = <<>> THEN sock_in ELSE Tail(sock_in)
  /\ UNCHANGED <<args, ptt, last_ptt, do_squelch, silent, fx_unit, c_buf,
                 spk_ch, presses, net_count, mic_count,
                 squelch_calls, timeout_bursts>>
  /\ UNCHANGED tx_end
  /\ UNCHANGED mic_press
  /\ UNCHANGED <<mic_open, spk_open>>
  /\ UNCHANGED <<jvars, rvars, dvars>>

\* a slip of the transmit branch: after a would-block the blocks stay in the
\* accumulator to be sent again
ClientTransmit_retry ==
  /\ c_pc = "branch"
  /\ ptt
  /\ IF mic_ch = <<>>
     THEN /\ c_pc' = IF mic_open THEN "edge" ELSE "dead"
          /\ UNCHANGED <<mic_buf, mic_ch, sock_out, io_error>>
     ELSE LET all == mic_buf \o Head(mic_ch)
              count == Len(all) \div TX_BUFFER_SIZE
          IN  \E outs \in [1..count -> SendOutcomes] :
                LET r == SendBlocks(all, outs, 1, sock_out)
                IN  /\ mic_ch' = Tail(mic_ch)
                    /\ sock_out' = r.sent
                    /\ mic_buf' = IF \/ r.panicked
                                     \/ \E k \in 1..count :
                                          outs[k] = "wouldblock"
                                  THEN all
                                  ELSE SubSeq(all, count * TX_BUFFER_SIZE + 1,
                                              Len(all))
                    /\ c_pc' = IF r.panicked THEN "dead" ELSE "edge"
                    /\ io_error' = IF r.panicked THEN "send" ELSE io_error
  /\ UNCHANGED <<args, ptt, last_ptt, do_squelch, silent, fx_unit, c_buf,
                 spk_ch, sock_in, presses, net_count, mic_count,
                 squelch_calls, timeout_bursts>>
  /\ UNCHANGED tx_end
  /\ UNCHANGED mic_press
  /\ UNCHANGED <<mic_open, spk_open>>
  /\ UNCHANGED <<jvars, rvars, dvars>>

\* the transmit branch: PTT is loaded again and is true
ClientTransmit ==
  /\ c_pc = "branch"
  /\ ptt
  /\ IF mic_ch = <<>>
     THEN /\ c_pc' = IF mic_open THEN "edge" ELSE "dead"
          /\ UNCHANGED <<mic_buf, mic_ch, sock_out, io_error>>
     ELSE LET all == mic_buf \o Head(mic_ch)
              count == Len(all) \div TX_BUFFER_SIZE
          IN  \E outs \in [1..count -> SendOutcomes] :
                LET r == SendBlocks(all, outs, 1, sock_out)
                IN  /\ mic_ch' = Tail(mic_ch)
                    /\ sock_out' = r.sent
                    /\ mic_buf' = IF r.panicked THEN all
                                  ELSE SubSeq(all, count * TX_BUFFER_SIZE + 1,
                                              Len(all))
                    /\ c_pc' = IF r.panicked THEN "dead" ELSE "edge"
                    /\ io_error' = IF r.panicked THEN "send" ELSE io_error
  /\ UNCHANGED <<args, ptt, last_ptt, do_squelch, silent, fx_unit, c_buf,
                 spk_ch, sock_in, presses, net_count, mic_count,
                 squelch_calls, timeout_bursts>>
  /\ UNCHANGED tx_end
  /\ UNCHANGED mic_press
  /\ UNCHANGED <<mic_open, spk_open>>
  /\ UNCHANGED <<jvars, rvars, dvars>>

\* the receive branch: PTT is loaded again and is false, recv_from returns Ok
\* and the whole receive buffer is decoded
ClientReceive ==
  /\ c_pc = "branch"
  /\ ~ptt
  /\ sock_in # <<>>
  /\ LET buf == RecvInto(c_buf, Head(sock_in))
         dec == Decode(buf)
         r   == FxRun(fx_unit, dec.packet.samples)
     IN  /\ c_buf' = buf
         /\ sock_in' = Tail(sock_in)
         /\ IF ~dec.ok
            THEN \* eprintln!, next iteration
                 /\ c_pc' = "edge"
                 /\ UNCHANGED <<do_squelch, silent, fx_unit, spk_ch,
                                timeout_bursts, tx_end>>
            ELSE IF dec.packet.tag = "Ping"
            THEN \* todo!() panics
                 /\ c_pc' = "dead"
                 /\ UNCHANGED <<do_squelch, silent, fx_unit, spk_ch,
                                timeout_bursts, tx_end>>
            ELSE /\ silent' = FALSE
                 /\ do_squelch' = TRUE
                 /\ fx_unit' = r.fx
                 /\ spk_ch' = Append(spk_ch, r.samples)
                 /\ timeout_bursts' = 0
                 /\ tx_end' = "off"
                 /\ c_pc' = SpkSend(<<r.samples>>, "edge")
  /\ UNCHANGED <<args, ptt, last_ptt, mic_buf, mic_ch, sock_out, presses,
                 net_count, mic_count, squelch_calls, io_error>>
  /\ UNCHANGED mic_press
  /\ UNCHANGED <<mic_open, spk_open>>
  /\ UNCHANGED <<jvars, rvars, dvars>>

\* a slip of the timeout branch: signal-present is not cleared
ClientIdle_keep ==
  /\ c_pc = "branch"
  /\ ~ptt
  /\ LET sq == FxSquelch(fx_unit)
     IN  IF do_squelch /\ silent
         THEN /\ do_squelch' = do_squelch
              /\ fx_unit' = sq.fx
              /\ spk_ch' = spk_ch \o sq.chunks
              /\ squelch_calls' = squelch_calls + 1
              /\ timeout_bursts' = timeout_bursts + 1
              /\ c_pc' = SpkSend(sq.chunks, "edge")
         ELSE /\ UNCHANGED <<do_squelch, fx_unit, spk_ch, squelch_calls,
                               timeout_bursts>>
              /\ c_pc' = "edge"
  /\ \E err \in RecvErrors :
       /\ err = "wouldblock" => sock_in = <<>>
       /\ io_error' = IF err = "error" THEN "recv" ELSE io_error
  /\ UNCHANGED <<args, ptt, last_ptt, silent, mic_buf, c_buf, mic_ch,
                 sock_in, sock_out, presses, net_count, mic_count>>
  /\ tx_end' = IF do_squelch /\ silent THEN AfterSquelch(tx_end) ELSE tx_end
  /\ UNCHANGED mic_press
  /\ UNCHANGED <<mic_open, spk_open>>
  /\ UNCHANGED <<jvars, rvars, dvars>>

\* the last branch: PTT is false and recv_from returns an error (WouldBlock
\* when nothing is waiting, or any other error: .is_ok() does not tell them
\* apart); the silence timeout is tested
ClientIdle ==
  /\ c_pc = "branch"
  /\ ~ptt
  /\ LET sq == FxSquelch(fx_unit)
     IN  IF do_squelch /\ silent
         THEN /\ do_squelch' = FALSE
              /\ fx_unit' = sq.fx
              /\ spk_ch' = spk_ch \o sq.chunks
              /\ squelch_calls' = squelch_calls + 1
              /\ timeout_bursts' = timeout_bursts + 1
              /\ c_pc' = SpkSend(sq.chunks, "edge")
         ELSE /\ UNCHANGED <<do_squelch, fx_unit, spk_ch, squelch_calls,
                               timeout_bursts>>
              /\ c_pc' = "edge"
  /\ \E err \in RecvErrors :
       /\ err = "wouldblock" => sock_in = <<>>
       /\ io_error' = IF err = "error" THEN "recv" ELSE io_error
  /\ UNCHANGED <<args, ptt, last_ptt, silent, mic_buf, c_buf, mic_ch,
                 sock_in, sock_out, presses, net_count, mic_count>>
  /\ tx_end' = IF do_squelch /\ silent THEN AfterSquelch(tx_end) ELSE tx_end
  /\ UNCHANGED mic_press
  /\ UNCHANGED <<mic_open, spk_open>>
  /\ UNCHANGED <<jvars, rvars, dvars>>

\* the hotkey or the button is pressed: ptt.store(true)
PttPress ==
  /\ c_pc # "dead"
  /\ ~ptt
  /\ presses < (IF mic_count > 0 THEN MaxTxPresses ELSE MaxPresses)
  /\ ptt' = TRUE
  /\ presses' = presses + 1
  /\ UNCHANGED <<args, c_pc, last_ptt, do_squelch, silent, mic_buf,
                 fx_unit, c_buf, mic_ch, spk_ch, sock_in, sock_out, net_count,
                 mic_count, squelch_calls, timeout_bursts, io_error>>
  /\ tx_end' = IF do_squelch THEN "armed" ELSE "off"
  /\ UNCHANGED mic_press
  /\ UNCHANGED <<mic_open, spk_open>>
  /\ UNCHANGED <<jvars, rvars, dvars>>

\* the hotkey or the button is released: ptt.store(false)
PttRelease ==
  /\ c_pc # "dead"
  /\ ptt
  /\ ptt' = FALSE
  /\ UNCHANGED <<args, c_pc, last_ptt, do_squelch, silent, mic_buf,
                 fx_unit, c_buf, mic_ch, spk_ch, sock_in, sock_out, presses,
                 net_count, mic_count, squelch_calls, timeout_bursts,
                 io_error>>
  /\ tx_end' = IF tx_end = "armed" THEN "released" ELSE tx_end
  /\ UNCHANGED mic_press
  /\ UNCHANGED <<mic_open, spk_open>>
  /\ UNCHANGED <<jvars, rvars, dvars>>

\* the capture callback: n samples arrive and are forwarded while PTT is held
MicCapture(n) ==
  /\ c_pc # "dead"
  /\ mic_open
  /\ ptt
  /\ mic_count + n <= MaxMicSamples
  /\ mic_ch' = Append(mic_ch, [i \in 1..n |-> MicSignal(mic_count + i)])
  /\ mic_count' = mic_count + n
  /\ UNCHANGED <<args, ptt, c_pc, last_ptt, do_squelch, silent, mic_buf,
                 fx_unit, c_buf, spk_ch, sock_in, sock_out, presses,
                 net_count, squelch_calls, timeout_bursts, io_error>>
  /\ UNCHANGED tx_end
  /\ mic_press' = mic_press \o [i \in 1..n |-> presses]
  /\ UNCHANGED <<mic_open, spk_open>>
  /\ UNCHANGED <<jvars, rvars, dvars>>

\* the playback callback: spk_rx.try_iter() takes every enqueued block
SpeakerPull ==
  /\ c_pc # "dead"
  /\ spk_open
  /\ spk_ch # <<>>
  /\ spk_ch' = <<>>
  /\ UNCHANGED <<args, ptt, c_pc, last_ptt, do_squelch, silent, mic_buf,
                 fx_unit, c_buf, mic_ch, sock_in, sock_out, presses,
                 net_count, mic_count, squelch_calls, timeout_bursts,
                 io_error>>
  /\ UNCHANGED tx_end
  /\ UNCHANGED mic_press
  /\ UNCHANGED <<mic_open, spk_open>>
  /\ UNCHANGED <<jvars, rvars, dvars>>

\* the network hands a datagram to the client's socket
NetDeliver(datagram) ==
  /\ c_pc # "dead"
  /\ net_count < MaxNet
  /\ sock_in' = Append(sock_in, datagram)
  /\ net_count' = net_count + 1
  /\ UNCHANGED <<args, ptt, c_pc, last_ptt, do_squelch, silent, mic_buf,
                 fx_unit, c_buf, mic_ch, spk_ch, sock_out, presses,
                 mic_count, squelch_calls, timeout_bursts, io_error>>
  /\ UNCHANGED tx_end
  /\ UNCHANGED mic_press
  /\ UNCHANGED <<mic_open, spk_open>>
  /\ UNCHANGED <<jvars, rvars, dvars>>

\* time goes by: 7 times WAIT_DURATION have passed since last_packet
TimePasses ==
  /\ c_pc # "dead"
  /\ ~silent
  /\ silent' = TRUE
  /\ UNCHANGED <<args, ptt, c_pc, last_ptt, do_squelch, mic_buf, fx_unit,
                 c_buf, mic_ch, spk_ch, sock_in, sock_out, presses, net_count,
                 mic_count, squelch_calls, timeout_bursts, io_error>>
  /\ UNCHANGED tx_end
  /\ UNCHANGED mic_press
  /\ UNCHANGED <<mic_open, spk_open>>
  /\ UNCHANGED <<jvars, rvars, dvars>>

\* the capture side goes away: the callback that owns mic_tx is dropped
MicDisconnect ==
  /\ c_pc # "dead"
  /\ mic_open
  /\ mic_open' = FALSE
  /\ UNCHANGED <<args, ptt, c_pc, last_ptt, do_squelch, silent, mic_buf,
                 fx_unit, c_buf, mic_ch, spk_ch, sock_in, sock_out, presses,
                 net_count, mic_count, squelch_calls, timeout_bursts,
                 io_error, tx_end, mic_press, spk_open>>
  /\ UNCHANGED <<jvars, rvars, dvars>>

\* the playback side goes away: the callback that owns spk_rx is dropped
SpkDisconnect ==
  /\ c_pc # "dead"
  /\ spk_open
  /\ spk_open' = FALSE
  /\ UNCHANGED <<args, ptt, c_pc, last_ptt, do_squelch, silent, mic_buf,
                 fx_unit, c_buf, mic_ch, spk_ch, sock_in, sock_out, presses,
                 net_count, mic_count, squelch_calls, timeout_bursts,
                 io_error, tx_end, mic_press, mic_open>>
  /\ UNCHANGED <<jvars, rvars, dvars>>

\* the client while the microphone delivers nothing
ClientRxNext ==
  \/ ClientStart
  \/ ClientEdge
  \/ ClientTransmit
  \/ ClientReceive
  \/ ClientIdle
  \/ PttPress
  \/ PttRelease
  \/ SpeakerPull
  \/ \E datagram \in NetDatagrams : NetDeliver(datagram)
  \/ TimePasses

\* the client while nothing reaches its socket
ClientTxNext ==
  \/ ClientStart
  \/ ClientEdge
  \/ ClientTransmit
  \/ ClientIdle
  \/ PttPress
  \/ PttRelease
  \/ \E n \in ChunkSizes : MicCapture(n)

\* the client with every input
ClientNext ==
  \/ ClientRxNext
  \/ \E n \in ChunkSizes : MicCapture(n)

(***************************************************************************)
(* The codec on its own: a packet is encoded, the bytes are decoded, whole  *)
(* or after having been cut short or given another variant index.          *)
(***************************************************************************)
\* sample values around the byte and sign boundaries of the four bytes
CodecSamples ==
  {0, 1, -1, 600, -1500, 255, 256, -65537, 16777216, 2147483647,
   -2147483647 - 1}

\* every Packet value over those samples
CodecPackets == {Ping} \cup {Audio(b) : b \in [Idx -> CodecSamples]}

\* variant indices that name no variant of Packet
BadTags == {2, 3, 250}

CodecInit ==
  /\ cd_packet \in CodecPackets
  /\ cd_bytes = <<>>
  /\ cd_out = [ok |-> FALSE]
  /\ cd_pc = "packet"

\* bincode::encode_to_vec(packet, standard())
CodecEncode ==
  /\ cd_pc = "packet"
  /\ cd_bytes' = Encode(cd_packet)
  /\ cd_pc' = "bytes"
  /\ UNCHANGED <<cd_packet, cd_out>>
  /\ UNCHANGED <<jvars, rvars, cvars>>

\* only the first n bytes of the encoding are kept
CodecTruncate(n) ==
  /\ cd_pc = "bytes"
  /\ n < Len(cd_bytes)
  /\ cd_bytes' = SubSeq(cd_bytes, 1, n)
  /\ cd_pc' = "damaged"
  /\ UNCHANGED <<cd_packet, cd_out>>
  /\ UNCHANGED <<jvars, rvars, cvars>>

\* the variant index is replaced by one that names no variant
CodecRetag(t) ==
  /\ cd_pc = "bytes"
  /\ cd_bytes' = [cd_bytes EXCEPT ![1] = t]
  /\ cd_pc' = "damaged"
  /\ UNCHANGED <<cd_packet, cd_out>>
  /\ UNCHANGED <<jvars, rvars, cvars>>

\* bincode::decode_from_slice(&bytes, standard())
CodecDecode ==
  /\ cd_pc \in {"bytes", "damaged"}
  /\ cd_out' = Decode(cd_bytes)
  /\ cd_pc' = IF cd_pc = "bytes" THEN "decoded" ELSE "rejected"
  /\ UNCHANGED <<cd_packet, cd_bytes>>
  /\ UNCHANGED <<jvars, rvars, cvars>>

CodecNext ==
  \/ CodecEncode
  \/ \E n \in 0..MAX_PACKET_SIZE : CodecTruncate(n)
  \/ \E t \in BadTags : CodecRetag(t)
  \/ CodecDecode

vars == <<jvars, rvars, cvars, dvars>>

\* every component as constructed
Init == JbInit /\ RelayInit /\ ClientInit /\ CodecInit

\* the pacing buffer alone (one client, never started)
InitJitter == Init /\ ~args.no_fx /\ cd_packet = Ping
SpecJitter == InitJitter /\ [][JbNext]_vars

\* the relay alone (one pacing buffer and one client, never used)
InitRelay == Init /\ jb_capacity = 0 /\ ~args.no_fx /\ cd_packet = Ping
SpecRelay == InitRelay /\ [][RelayNext]_vars

\* the client alone (one pacing buffer, never used; no relay traffic)
InitClient == Init /\ jb_capacity = 0 /\ cd_packet = Ping
SpecClient == InitClient /\ [][ClientNext]_vars

\* the client listening: push-to-talk, the network and the clock act, the
\* microphone stays silent
SpecClientRx == InitClient /\ [][ClientRxNext]_vars

\* the codec alone (one pacing buffer, relay and client never started)
InitCodec == Init /\ jb_capacity = 0 /\ ~args.no_fx
SpecCodec == InitCodec /\ [][CodecNext]_vars

\* the client talking: push-to-talk and the microphone act, the network
\* delivers nothing
SpecClientTx == InitClient /\ [][ClientTxNext]_vars

\* what the second client sends: its Ping and blocks of all 0.6
ClientDatagrams == {Encode(Ping), Encode(Audio(Tone(600)))}

\* a client, listening with PTT never pressed, together with the relay and a
\* second client B: the relay receives what the client has sent and what B
\* sends, and the client's socket receives what the relay has sent to it (a
\* datagram may be lost, repeated or overtaken on the way)
Self == "A"
SystemNext ==
  \/ ClientStart
  \/ ClientEdge
  \/ ClientReceive
  \/ ClientIdle
  \/ TimePasses
  \/ \E k \in DOMAIN sock_out : RelayRecv(Self, sock_out[k])
  \/ \E datagram \in ClientDatagrams : RelayRecv("B", datagram)
  \/ MixDrainPings
  \/ MixDrainAudio
  \/ MixTick
  \/ MixSkip
  \/ PeriodElapses
  \/ \E k \in DOMAIN bcast :
       bcast[k].dst = Self /\ NetDeliver(bcast[k].data)
InitSystem == InitClient /\ ~args.no_fx
SpecSystem == InitSystem /\ [][SystemNext]_vars

\* the session thread is a loop that never blocks: until it panics its
\* position keeps advancing (the steps that move c_pc are exactly the steps of
\* ClientStart, ClientEdge, ClientTransmit, ClientReceive and ClientIdle, and
\* one of them is enabled at every position but "dead")
SessionAdvances ==
  /\ c_pc # "dead"
  /\ c_pc' \in {"edge", "branch", "dead"}
  /\ c_pc' # c_pc
SpecClientRxFair == SpecClientRx /\ WF_c_pc(SessionAdvances)

\* the client while either audio callback may go away: push-to-talk, the
\* clock and Audio packets from the network act, the session thread keeps
\* running
ClientChanNext ==
  \/ ClientStart
  \/ ClientEdge
  \/ ClientTransmit
  \/ ClientReceive
  \/ ClientIdle
  \/ PttPress
  \/ PttRelease
  \/ NetDeliver(Encode(Audio(Tone(600))))
  \/ TimePasses
  \/ MicDisconnect
  \/ SpkDisconnect
SpecClientChan ==
  InitClient /\ [][ClientChanNext]_vars /\ WF_c_pc(SessionAdvances)

\* the client and its effects engine: push-to-talk, the clock and Audio
\* packets from the network act, the microphone stays silent
ClientFxNext ==
  \/ ClientStart
  \/ ClientEdge
  \/ ClientTransmit
  \/ ClientReceive
  \/ ClientIdle
  \/ PttPress
  \/ PttRelease
  \/ NetDeliver(Encode(Audio(Tone(600))))
  \/ TimePasses
InitClientFx ==
  /\ JbInit /\ RelayInit /\ CodecInit
  /\ \E a \in FxArgsChoices : ClientInitOf(a)
  /\ jb_capacity = 0 /\ cd_packet = Ping
SpecClientFx == InitClientFx /\ [][ClientFxNext]_vars

(***************************************************************************)
(* Claims about the relay                                                  *)
(***************************************************************************)
\* a step of the mixing thread that runs the tick
TickStep == mix_pc = "tick" /\ elapsed /\ mix_pc' = "pings"

\* the clients with a pending block, and the block at the head of each queue
Pending == {a \in DOMAIN client_chunks : client_chunks[a] # <<>>}
HeadOf(a) == Head(client_chunks[a])

RECURSIVE RunningSum(_, _, _)
\* sample i of the heads of the clients order[1..k], added one after the other
\* with the sum clamped to [-1, 1] after each addition
RunningSum(order, k, i) ==
  IF k = 0 THEN 0
  ELSE Clamp(FAdd(RunningSum(order, k - 1, i), HeadOf(order[k])[i]))

RECURSIVE PlainSum(_, _)
\* sample i of the heads of the clients S, added up
PlainSum(S, i) ==
  IF S = {} THEN 0
  ELSE LET a == CHOOSE x \in S : TRUE
       IN  FAdd(HeadOf(a)[i], PlainSum(S \ {a}, i))

\* the packet a datagram of the broadcast carries
Carried(d) == Decode(d.data).packet

C23_InRange ==
  \A k \in DOMAIN bcast :
    \A i \in Idx : InUnit(Carried(bcast[k]).samples[i])

\* C22 as stated: the mixed block does not depend on the visiting order.
\* Whatever order the tick visits the registry in, the block it mixes is the
\* block every visiting order of the clients with a pending block gives.
C22_OrderFree ==
  [][TickStep =>
       \A order \in Orders(Pending) :
         mix_buf' = [i \in Idx |-> RunningSum(order, Len(order), i)]
    ]_vars

C6_PopOne ==
  [][TickStep =>
       /\ DOMAIN client_chunks' = DOMAIN client_chunks
       /\ \A a \in DOMAIN client_chunks :
            client_chunks'[a] =
              IF Len(client_chunks[a]) > 0
                THEN SubSeq(client_chunks[a], 2, Len(client_chunks[a]))
                ELSE <<>>
    ]_vars

\* a tick has popped the head of a queue of three and left the two newer blocks,
\* which differ
C6_Witness ==
  /\ Len(popped) = 1
  /\ LET a == popped[1].src IN
       /\ Len(client_chunks[a]) = 2
       /\ client_chunks[a][1] # client_chunks[a][2]
       /\ popped[1].samples # client_chunks[a][1]

\* the datagram the ingress thread has just received is the whole encoding of a
\* packet
WholeDatagram ==
  LET d == SubSeq(rx_buf', 1, rx_len') IN
    Decode(d).ok /\ Encode(Decode(d).packet) = d

\* C7 as stated: a datagram that is not the whole encoding of a packet
\* (truncated, zero-length, unknown variant) is discarded: the ingress thread
\* forwards neither a registration nor a block for it.
C7_Discarded ==
  [][rx_count' = rx_count + 1 /\ ~WholeDatagram =>
       ping_ch' = ping_ch /\ audio_ch' = audio_ch
    ]_vars

\* the steps of the relay that act on a packet: the ingress thread receives a
\* datagram, the mixing thread drains the ping channel, the audio channel
IngressStep == rx_count' = rx_count + 1
PingDrainStep == mix_pc = "pings" /\ mix_pc' = "audio"
AudioDrainStep == mix_pc = "audio" /\ mix_pc' = "tick"

\* the pending queue of address a in a registry (empty when unregistered)
QueueOf(chunks, a) == IF a \in DOMAIN chunks THEN chunks[a] ELSE <<>>

\* the addresses in the ping channel, the addresses in the audio channel
PingSrcs(pings) == {pings[i] : i \in DOMAIN pings}
AudioSrcs(audios) == {audios[i].src : i \in DOMAIN audios}

\* the blocks address a has in the audio channel, in channel order
BlocksFrom(audios, a) ==
  LET sel == SelectSeq(audios, LAMBDA e : e.src = a)
  IN  [i \in 1..Len(sel) |-> sel[i].samples]

\* C11: ingress effects.  The ingress thread hands a decoded Ping to the ping
\* channel and a decoded Audio block to the audio channel, with its sender,
\* and leaves the registry alone.  Draining the ping channel registers the
\* unregistered senders with an empty queue and changes no queue; draining
\* the audio channel registers the unregistered senders and appends each
\* sender's blocks, in order, at the tail of its queue; every other entry
\* and queue stays as it was.
C11_IngressEffects ==
  [][
      /\ IngressStep =>
           ( /\ client_chunks' = client_chunks
             /\ LET d == Decode(rx_buf') IN
                  /\ (d.ok /\ d.packet.tag = "Ping") =>
                       ( /\ \E a \in Addrs : ping_ch' = Append(ping_ch, a)
                         /\ audio_ch' = audio_ch )
                  /\ (d.ok /\ d.packet.tag = "Audio") =>
                       ( /\ \E a \in Addrs :
                              audio_ch' = Append(audio_ch,
                                [src |-> a, samples |-> d.packet.samples])
                         /\ ping_ch' = ping_ch ) )
      /\ PingDrainStep =>
           ( /\ DOMAIN client_chunks' =
                  DOMAIN client_chunks \cup PingSrcs(ping_ch)
             /\ \A a \in DOMAIN client_chunks' :
                  client_chunks'[a] = QueueOf(client_chunks, a) )
      /\ AudioDrainStep =>
           ( /\ DOMAIN client_chunks' =
                  DOMAIN client_chunks \cup AudioSrcs(audio_ch)
             /\ \A a \in DOMAIN client_chunks' :
                  client_chunks'[a] =
                    QueueOf(client_chunks, a) \o BlocksFrom(audio_ch, a) )
  ]_vars

\* a Ping of A has been drained while A was registered with a block pending
\* (which is still pending), and an Audio block of A is about to be appended
C11_Witness ==
  /\ mix_pc = "audio"
  /\ pinged = <<"A">>
  /\ "A" \in DOMAIN client_chunks
  /\ client_chunks["A"] # <<>>
  /\ audio_ch # <<>>
  /\ audio_ch[1].src = "A"

\* C12: the registry only grows.  No step of the relay removes an address
\* from the registry; a datagram that is a whole Ping or Audio packet is
\* forwarded to a channel, and draining a channel registers every sender in
\* it.
C12_RegistryGrows ==
  [][
      /\ DOMAIN client_chunks \subseteq DOMAIN client_chunks'
      /\ (IngressStep /\ WholeDatagram) =>
           Len(ping_ch') + Len(audio_ch') = Len(ping_ch) + Len(audio_ch) + 1
      /\ PingDrainStep => PingSrcs(ping_ch) \subseteq DOMAIN client_chunks'
      /\ AudioDrainStep => AudioSrcs(audio_ch) \subseteq DOMAIN client_chunks'
  ]_vars

\* a tick has popped the last block of A and broadcast the mix: A is still
\* registered, with an empty queue
C12_Witness ==
  /\ mix_pc = "pings"
  /\ popped # <<>>
  /\ popped[1].src = "A"
  /\ bcast # <<>>
  /\ "A" \in DOMAIN client_chunks
  /\ client_chunks["A"] = <<>>

\* s is the beginning of t
IsPrefix(s, t) == Len(s) <= Len(t) /\ SubSeq(t, 1, Len(s)) = s

\* C24: queues are FIFO and lose nothing.  A tick moves every pending block
\* one place toward the head of its sender's queue and pops exactly the
\* heads; no other step moves or removes a pending block; blocks enter a
\* queue only at its tail, in the order the audio channel holds them, and
\* the channel holds them in the order the ingress thread forwarded them.
\* So a block with k blocks ahead of it is popped by the (k+1)-th tick that
\* follows.
C24_QueueFifo ==
  [][
      /\ \A a \in DOMAIN client_chunks :
           /\ a \in DOMAIN client_chunks'
           /\ \A p \in DOMAIN client_chunks[a] :
                IF TickStep
                THEN IF p = 1
                     THEN \E k \in DOMAIN popped' :
                            popped'[k] = [src |-> a, samples |-> HeadOf(a)]
                     ELSE /\ p - 1 \in DOMAIN client_chunks'[a]
                          /\ client_chunks'[a][p - 1] = client_chunks[a][p]
                ELSE /\ p \in DOMAIN client_chunks'[a]
                     /\ client_chunks'[a][p] = client_chunks[a][p]
      /\ TickStep =>
           /\ Len(popped') = Cardinality(Pending)
           /\ \A a \in DOMAIN client_chunks :
                Len(client_chunks'[a]) =
                  IF a \in Pending THEN Len(client_chunks[a]) - 1 ELSE 0
      /\ AudioDrainStep =>
           \A a \in DOMAIN client_chunks' :
             client_chunks'[a] =
               QueueOf(client_chunks, a) \o BlocksFrom(audio_ch, a)
      /\ ~AudioDrainStep =>
           /\ IsPrefix(audio_ch, audio_ch')
           /\ \A a \in DOMAIN client_chunks :
                Len(client_chunks'[a]) <= Len(client_chunks[a])
  ]_vars

\* a tick has popped the block of all 0.6 that A sent first and has moved
\* the block A sent after it to the head of A's queue
C24_Witness ==
  /\ popped = <<[src |-> "A", samples |-> Tone(600)]>>
  /\ "A" \in DOMAIN client_chunks
  /\ client_chunks["A"] = <<TailBlock(-600)>>

(***************************************************************************)
(* Claims about the client session loop                                    *)
(***************************************************************************)
\* the session thread takes the receive side of an iteration (PTT loaded false)
ReceiveSide == c_pc = "branch" /\ c_pc' # "branch" /\ ~ptt
\* ... and recv_from hands over a datagram that decodes as Audio
AudioArrives ==
  /\ ReceiveSide
  /\ sock_in' # sock_in
  /\ Decode(c_buf').ok
  /\ Decode(c_buf').packet.tag = "Audio"
\* ... and recv_from hands over nothing
NothingArrives == ReceiveSide /\ sock_in' = sock_in

\* C1: silence timeout.  In an iteration that receives nothing while
\* signal-present is set and 7 inter-block intervals have passed since the
\* last Audio arrival, squelch() is called once, its blocks are enqueued in
\* order and signal-present is cleared; an iteration that receives nothing
\* otherwise enqueues nothing; never more than one timeout burst follows an
\* Audio arrival; only an Audio arrival sets signal-present, and it resets the
\* arrival time and enqueues the processed block alone, without a squelch()
\* call; and a due timeout does get served, unless PTT is held, Audio arrives
\* or the session thread has died.
C1_SilenceTimeout ==
  /\ [][
        /\ (NothingArrives /\ do_squelch /\ silent) =>
             ( /\ ~do_squelch'
               /\ squelch_calls' = squelch_calls + 1
               /\ spk_ch' = spk_ch \o FxSquelch(fx_unit).chunks )
        /\ (NothingArrives /\ ~(do_squelch /\ silent)) =>
             UNCHANGED <<do_squelch, squelch_calls, spk_ch>>
        /\ AudioArrives =>
             ( /\ do_squelch'
               /\ ~silent'
               /\ squelch_calls' = squelch_calls
               /\ spk_ch' = Append(spk_ch,
                    FxRun(fx_unit, Decode(c_buf').packet.samples).samples) )
        /\ (do_squelch' /\ ~do_squelch) => AudioArrives
        /\ timeout_bursts' <= 1
     ]_vars
  /\ (do_squelch /\ silent) ~>
       (~do_squelch \/ ~silent \/ ptt \/ c_pc = "dead")

\* two timeout bursts with an Audio arrival in between, PTT never touched
C1_Witness ==
  /\ presses = 0
  /\ squelch_calls = 2
  /\ timeout_bursts = 1
  /\ ~do_squelch
  /\ ~args.no_fx

\* the session thread samples PTT at the top of an iteration
EdgeStep == c_pc = "edge" /\ c_pc' = "branch"

\* C2: release burst.  An iteration that samples PTT false after having
\* sampled it true calls squelch() exactly once and enqueues the returned
\* blocks in order; an iteration that samples any other pair of values
\* enqueues nothing at the top of the loop and calls squelch() not at all.
C2_ReleaseBurst ==
  [][EdgeStep =>
       /\ last_ptt' = ptt
       /\ IF ~ptt /\ last_ptt
          THEN /\ squelch_calls' = squelch_calls + 1
               /\ spk_ch' = spk_ch \o FxSquelch(fx_unit).chunks
               /\ fx_unit' = FxSquelch(fx_unit).fx
          ELSE UNCHANGED <<squelch_calls, spk_ch, fx_unit>>]_vars

\* the release burst of the one press is enqueued, nothing was ever received
C2_Witness ==
  /\ c_pc = "branch"
  /\ presses = 1
  /\ ~ptt
  /\ ~last_ptt
  /\ net_count = 0
  /\ squelch_calls = 1
  /\ Len(spk_ch) = SQUELCH_LENGTH

\* a call of squelch() by the session thread
SquelchCall == squelch_calls' = squelch_calls + 1
\* what the call appended to the playback channel
Burst == SubSeq(spk_ch', Len(spk_ch) + 1, Len(spk_ch'))

\* C17: length of the squelch burst.  Whatever run and squelch calls the
\* engine has served before, squelch() returns no block when effects are
\* disabled and SQUELCH_LENGTH blocks of TX_BUFFER_SIZE samples when they
\* are enabled, and that is what each call of the session thread enqueues.
C17_SquelchLength ==
  /\ [](LET chunks == FxSquelch(fx_unit).chunks
        IN  /\ Len(chunks) = IF fx_unit.disabled THEN 0 ELSE SQUELCH_LENGTH
            /\ \A k \in DOMAIN chunks : DOMAIN chunks[k] = Idx)
  /\ [][SquelchCall =>
         /\ Len(spk_ch') >= Len(spk_ch)
         /\ SubSeq(spk_ch', 1, Len(spk_ch)) = spk_ch
         /\ Len(Burst) = IF args.no_fx THEN 0 ELSE SQUELCH_LENGTH
         /\ \A k \in DOMAIN Burst : DOMAIN Burst[k] = Idx
      ]_vars

\* with effects on: a received block went through run(), then a release
\* burst and a timeout burst, and all of them still wait to be played
C17_Witness ==
  /\ ~args.no_fx
  /\ squelch_calls = 2
  /\ timeout_bursts = 1
  /\ presses = 1
  /\ Len(spk_ch) = 2 * SQUELCH_LENGTH + 1
  /\ fx_unit.noise_idx =
       TX_BUFFER_SIZE * (RUN_STEP + 2 * SQUELCH_LENGTH * (RUN_STEP + SQUELCH_STEP))

\* the datagrams a step hands to the socket
NewlySent == SubSeq(sock_out', Len(sock_out) + 1, Len(sock_out'))
\* the Ping datagrams the client has sent
SentPings == SelectSeq(sock_out, LAMBDA d : d = Encode(Ping))

\* C18: one Ping.  The session thread sends Ping only in the step that
\* leaves its start, once, and that step sends nothing else; if that send
\* reports would-block nothing is sent and the thread goes on without a
\* second attempt.  So a session's datagrams hold at most one Ping, in the
\* first place, ahead of every Audio packet, and the thread never returns
\* to its start.
C18_OnePing ==
  /\ [](/\ Len(SentPings) <= 1
        /\ SentPings # <<>> => sock_out[1] = Encode(Ping)
        /\ c_pc = "start" => sock_out = <<>>)
  /\ [][/\ Len(sock_out') >= Len(sock_out)
        /\ SubSeq(sock_out', 1, Len(sock_out)) = sock_out
        /\ c_pc = "start" => NewlySent \in {<<>>, <<Encode(Ping)>>}
        /\ c_pc # "start" =>
             /\ c_pc' # "start"
             /\ \A k \in DOMAIN NewlySent : NewlySent[k] # Encode(Ping)
      ]_vars

\* the Ping went out first and two Audio packets followed it
C18_Witness ==
  /\ Len(sock_out) = 3
  /\ sock_out[1] = Encode(Ping)
  /\ \A k \in 2..3 : Decode(sock_out[k]).packet.tag = "Audio"

\* the opening send reported would-block: Audio was sent, Ping never
C18_NoRetry ==
  /\ sock_out # <<>>
  /\ SentPings = <<>>

\* C19 as stated: one burst for each end of a transmission.  After a press
\* made while signal-present was set, and with no Audio arrival since the
\* release, the session thread has called squelch() at most once since the
\* release.
C19_OneBurst == tx_end # "two"

\* the session thread chooses its branch (the load of PTT at line 161)
BranchStep == c_pc = "branch" /\ c_pc' # "branch"

\* C20 as stated: one PTT value for an iteration.  The value of PTT the
\* session thread reads to choose its branch is the value it sampled for the
\* edge detection at the top of the same iteration.
C20_SamePtt == [][BranchStep => ptt = last_ptt]_vars

\* C25: one branch for each iteration.  The session thread chooses by the
\* value of PTT it loads at the branch.  When it is true the iteration takes
\* nothing from the socket, decodes nothing, enqueues nothing for playback
\* and leaves signal-present, the arrival time and the effects engine as they
\* are, whatever waits on the socket and however long the silence has been.
\* When it is false the iteration sends nothing, takes nothing from the
\* microphone and takes at most one datagram from the socket.
C25_OneBranch ==
  [][BranchStep =>
       IF ptt
       THEN UNCHANGED <<sock_in, c_buf, spk_ch, do_squelch, silent, fx_unit,
                        squelch_calls, timeout_bursts>>
       ELSE /\ UNCHANGED <<sock_out, mic_buf, mic_ch>>
            /\ (sock_in' = sock_in \/ sock_in' = Tail(sock_in))
    ]_vars

\* PTT is held, the session thread has just been through the transmit
\* branch, and a datagram waits on the socket while the silence timeout of
\* the last Audio arrival is due
C25_Witness ==
  /\ c_pc = "edge"
  /\ presses = 1
  /\ ptt
  /\ last_ptt
  /\ sock_in # <<>>
  /\ do_squelch
  /\ silent

\* C15: codec round trip.  Decoding the encoding of a packet gives the packet
\* back, and no encoding is longer than MAX_PACKET_SIZE.
C15_RoundTrip ==
  /\ cd_pc \in {"bytes", "decoded"} => Len(cd_bytes) <= MAX_PACKET_SIZE
  /\ cd_pc = "decoded" => (cd_out.ok /\ cd_out.packet = cd_packet)

\* an Audio packet with a negative sample and a sample of several bytes has
\* come back from its encoding
C15_Witness ==
  /\ cd_pc = "decoded"
  /\ cd_packet.tag = "Audio"
  /\ cd_packet.samples[1] = -65537
  /\ cd_packet.samples[TX_BUFFER_SIZE] = 16777216
  /\ cd_out.ok
  /\ cd_out.packet = cd_packet

\* the decoder given exactly the damaged bytes: an error, never a packet
DecoderRejects == cd_pc = "rejected" => ~cd_out.ok

\* the session thread takes a datagram from its socket
TakesDatagram ==
  c_pc = "branch" /\ c_pc' # "branch" /\ sock_in # <<>> /\ sock_in' = Tail(sock_in)
\* that datagram is cut short, or its variant index names no variant
Damaged(d) ==
  \/ d = <<>>
  \/ d[1] \notin {0, 1}
  \/ d[1] = 1 /\ Len(d) < 1 + F32_BYTES * TX_BUFFER_SIZE

\* C16 as stated: decoding what a cut-short or wrongly tagged byte sequence
\* left in the receive buffer gives a decode error: the session thread logs
\* it and goes on, nothing is decoded, enqueued or marked, nothing crashes.
C16_DecodeError ==
  [][(TakesDatagram /\ Damaged(Head(sock_in))) =>
       /\ ~Decode(c_buf').ok
       /\ c_pc' = "edge"
       /\ UNCHANGED <<spk_ch, do_squelch, fx_unit>>
    ]_vars

\* C14 as stated: a socket error other than would-block, on a send or on a
\* receive, ends the session: once one has happened the session thread is
\* dead.
C14_Fatal == io_error # "none" => c_pc = "dead"

RECURSIVE Flatten(_)
\* the samples of a sequence of chunks, in order
Flatten(chunks) ==
  IF chunks = <<>> THEN <<>> ELSE Head(chunks) \o Flatten(Tail(chunks))

RECURSIVE IsSubseq(_, _)
\* s is t with some elements left out
IsSubseq(s, t) ==
  IF s = <<>> THEN TRUE
  ELSE IF t = <<>> THEN FALSE
  ELSE IF Head(s) = Head(t) THEN IsSubseq(Tail(s), Tail(t))
  ELSE IsSubseq(s, Tail(t))

\* the j-th block of N consecutive captured samples, after mic gain and clamp
StreamBlock(j) ==
  [i \in Idx |->
     Clamp((MicSignal((j - 1) * TX_BUFFER_SIZE + i) * args.mic_gain) \div One)]

\* the Audio datagrams the client has sent, and the blocks they carry
SentAudio == SelectSeq(sock_out, LAMBDA d : d # Encode(Ping))
SentBlocks == [k \in 1..Len(SentAudio) |-> Decode(SentAudio[k]).packet.samples]

\* the captured samples not yet framed: the accumulator, then the channel
Unframed == mic_buf \o Flatten(mic_ch)

\* C13 as stated: the packets sent carry the captured samples block after
\* block, none skipped or duplicated, and the accumulator stays below N.
C13_Original ==
  /\ SentBlocks = [j \in 1..Len(SentBlocks) |-> StreamBlock(j)]
  /\ c_pc # "dead" => Len(mic_buf) < TX_BUFFER_SIZE

\* C13: transmit framing.  Every Audio packet sent is the whole encoding of
\* one block of N consecutive captured samples that starts at a multiple of
\* N (with mic gain and clamp applied); the packets are in capture order and
\* none repeats, but blocks may be missing between them (a send that reports
\* would-block drops its block); the samples not yet framed are exactly the
\* captured samples behind the framed blocks, and between iterations the
\* accumulator holds fewer than N of them.
C13_Framing ==
  /\ \A k \in DOMAIN SentAudio :
       Len(SentAudio[k]) = 1 + F32_BYTES * TX_BUFFER_SIZE
  /\ IsSubseq(SentBlocks,
              [j \in 1..(mic_count \div TX_BUFFER_SIZE) |-> StreamBlock(j)])
  /\ c_pc # "dead" =>
       LET start == mic_count - Len(Unframed) IN
         /\ Len(mic_buf) < TX_BUFFER_SIZE
         /\ start % TX_BUFFER_SIZE = 0
         /\ Unframed = [i \in 1..Len(Unframed) |-> MicSignal(start + i)]
         /\ IsSubseq(SentBlocks,
                     [j \in 1..(start \div TX_BUFFER_SIZE) |-> StreamBlock(j)])

\* the first block was dropped by a would-block send, the second one was
\* sent, and one sample waits in the accumulator
C13_Witness ==
  /\ c_pc # "dead"
  /\ SentBlocks = <<StreamBlock(2)>>
  /\ Len(mic_buf) = 1
  /\ mic_ch = <<>>

\* C21 as stated: samples stay within their transmission.  Every Audio
\* packet the session thread sends carries only samples that were captured
\* during the press that is current when it is sent.
C21_OwnTransmission ==
  [][\A k \in DOMAIN NewlySent :
       Decode(NewlySent[k]).packet.tag = "Audio" =>
         \A j \in 1..(mic_count \div TX_BUFFER_SIZE) :
           StreamBlock(j) = Decode(NewlySent[k]).packet.samples =>
             \A i \in Idx :
               mic_press[(j - 1) * TX_BUFFER_SIZE + i] = presses
    ]_vars

\* C27: no Ping reaches a client.  Every datagram the relay sends is the
\* whole encoding of an Audio packet, and a client that receives only what
\* the relay has sent to it decodes every datagram as Audio: its Ping branch
\* is never taken and its session thread does not die of it.
C27_NoPingReceived ==
  /\ [](\A k \in DOMAIN bcast :
          /\ Decode(bcast[k].data).ok
          /\ Decode(bcast[k].data).packet.tag = "Audio"
          /\ Encode(Decode(bcast[k].data).packet) = bcast[k].data)
  /\ [][TakesDatagram =>
         /\ Decode(c_buf').ok
         /\ Decode(c_buf').packet.tag = "Audio"
         /\ c_pc' = "edge"
      ]_vars

\* the client has received two datagrams from the relay, has queued both
\* blocks for playback and runs on
C27_Witness ==
  /\ net_count = 2
  /\ sock_in = <<>>
  /\ Len(spk_ch) = 2
  /\ do_squelch
  /\ c_pc = "edge"

\* the session thread takes a chunk from the microphone channel
TransmitStep == BranchStep /\ ptt /\ mic_ch # <<>>
\* the blocks a step hands to the socket
NewBlocks == [k \in DOMAIN NewlySent |-> Decode(NewlySent[k]).packet.samples]

\* C26: a send that would block loses its block.  An iteration that takes a
\* chunk and does not panic removes every whole block from the accumulator,
\* whether its send went through or reported would-block; what it sends is
\* those blocks in order with some left out, none twice; no error is
\* recorded and the loop goes on.  The samples left to be framed are always
\* the captured samples behind the last framed block, so a lost block is
\* never sent later.
C26_WouldBlockDrops ==
  /\ [][(TransmitStep /\ c_pc' # "dead") =>
         LET all == mic_buf \o Head(mic_ch)
             count == Len(all) \div TX_BUFFER_SIZE
         IN  /\ mic_buf' = SubSeq(all, count * TX_BUFFER_SIZE + 1, Len(all))
             /\ mic_ch' = Tail(mic_ch)
             /\ IsSubseq(NewBlocks, [k \in 1..count |-> MicBlock(all, k)])
             /\ c_pc' = "edge"
             /\ io_error' = io_error
      ]_vars
  /\ [](c_pc # "dead" =>
         Unframed = [i \in 1..Len(Unframed) |->
                       MicSignal(mic_count - Len(Unframed) + i)])

\* one whole block was captured and taken, nothing but the opening Ping was
\* sent, nothing is left to frame and the session thread runs on
C26_Witness ==
  /\ c_pc = "edge"
  /\ io_error = "none"
  /\ mic_count = TX_BUFFER_SIZE
  /\ Unframed = <<>>
  /\ sock_out = <<Encode(Ping)>>

\* C28: once the capture channel or the playback channel has lost its other
\* end, the session thread terminates, whatever it was doing at that moment
C28_DisconnectFatal == (~mic_open \/ ~spk_open) ~> (c_pc = "dead")

\* a step in which the session thread decodes an Audio packet and runs it
\* through the engine
RunStep ==
  /\ TakesDatagram
  /\ Decode(c_buf').ok
  /\ Decode(c_buf').packet.tag = "Audio"
\* the noise phase a squelch block starts its run() at
AfterNoiseBuf(fx) == [fx EXCEPT !.noise_idx = @ + TX_BUFFER_SIZE * SQUELCH_STEP]

\* what run() and squelch() would do to the noise phase of the unit fx
PhaseLaw(fx) ==
  ~fx.disabled =>
    /\ \A b \in {ZeroBlock, Tone(600)} :
          FxRun(fx, b).fx.noise_idx = fx.noise_idx + TX_BUFFER_SIZE * RUN_STEP
    /\ \A k \in 0..SQUELCH_LENGTH :
          SquelchLoop(fx, <<>>, k).fx.noise_idx =
            fx.noise_idx + k * TX_BUFFER_SIZE * (SQUELCH_STEP + RUN_STEP)
    /\ SquelchLoop(fx, <<>>, 1).chunks[1] =
          FxRun(AfterNoiseBuf(fx),
                [i \in Idx |->
                   Noise(fx.noise_idx + (i - 1) * SQUELCH_STEP) \div 10]).samples

\* C29: the noise phase with effects enabled.  Whatever the engine has served
\* before (as constructed, and after every step that changed it), run()
\* advances the phase by TX_BUFFER_SIZE steps of 0.005, and each of the
\* SQUELCH_LENGTH blocks of squelch() advances it by TX_BUFFER_SIZE steps of
\* 0.03 and then, in its run(), by TX_BUFFER_SIZE steps of 0.005; over a
\* session the phase never decreases and moves only by these amounts.
C29_PhaseAdvances ==
  /\ [](c_pc = "start" => PhaseLaw(fx_unit))
  /\ [][fx_unit' # fx_unit => PhaseLaw(fx_unit')]_vars
  /\ [][~args.no_fx =>
         /\ fx_unit'.noise_idx >= fx_unit.noise_idx
         /\ fx_unit'.noise_idx - fx_unit.noise_idx =
              (IF RunStep THEN TX_BUFFER_SIZE * RUN_STEP ELSE 0)
                + (IF SquelchCall
                   THEN SQUELCH_LENGTH * TX_BUFFER_SIZE
                          * (SQUELCH_STEP + RUN_STEP)
                   ELSE 0)
      ]_vars

\* with effects on: two received blocks and one burst went through the
\* engine
C29_Witness ==
  /\ ~args.no_fx
  /\ net_count = 2
  /\ squelch_calls = 1
  /\ Len(spk_ch) = SQUELCH_LENGTH + 2
  /\ fx_unit.noise_idx =
       TX_BUFFER_SIZE
         * (2 * RUN_STEP + SQUELCH_LENGTH * (SQUELCH_STEP + RUN_STEP))

\* run() with effects disabled: gain, then clamp
GainClamp(fx, samples) ==
  [i \in Idx |-> Clamp((samples[i] * fx.signal_gain) \div One)]
\* what run() and squelch() would do to the unit fx and to a block
FrameLaw(fx) ==
  fx.disabled =>
    /\ \A b \in {ZeroBlock, Tone(600), Tone(-1500), TailBlock(800)} :
          FxRun(fx, b) = [fx |-> fx, samples |-> GainClamp(fx, b)]
    /\ FxSquelch(fx) = [fx |-> fx, chunks |-> <<>>]

\* C30: the engine with effects disabled.  run() changes nothing but the
\* samples, each multiplied by the gain and then clamped to [-1, 1], and
\* squelch() returns no block; the noise phase and the filter state stay as
\* constructed.  So over a session started with --no-fx the engine never
\* changes, a received block is enqueued as gain-then-clamp of its samples,
\* and a squelch call enqueues nothing.
C30_DisabledFrame ==
  /\ [](/\ fx_unit.disabled = args.no_fx
        /\ args.no_fx =>
             /\ fx_unit = FxNew(TRUE, args.gain, args.distortion)
             /\ FrameLaw(fx_unit))
  /\ [][args.no_fx =>
         /\ fx_unit' = fx_unit
         /\ RunStep =>
              spk_ch' =
                Append(spk_ch,
                       GainClamp(fx_unit, Decode(c_buf').packet.samples))
         /\ SquelchCall => spk_ch' = spk_ch
      ]_vars

\* with --no-fx and --gain 2: two blocks of 0.6 arrived and were enqueued
\* as blocks of 1.0, and a release and a timeout called squelch()
C30_Witness ==
  /\ args.no_fx
  /\ args.gain = 2 * One
  /\ squelch_calls = 2
  /\ timeout_bursts = 1
  /\ spk_ch = <<Tone(One), Tone(One)>>

(***************************************************************************)
(* Claims about the pacing buffer                                          *)
(***************************************************************************)
\* C8 as stated: from an empty buffer of capacity C >= 1, the pushes 1..C-1
\* return None and push number C returns Some holding C items, leaving only the
\* value just pushed.
C8_Original ==
  jb_capacity >= 1 =>
    /\ (Len(jb_pushed) \in 1..(jb_capacity - 1) => ~jb_ret.some)
    /\ (Len(jb_pushed) = jb_capacity =>
          /\ jb_ret.some
          /\ Len(jb_ret.items) = jb_capacity
          /\ jb_buffer = <<jb_pushed[Len(jb_pushed)]>>)

\* C8 (amended): from an empty buffer of capacity C, each of the first C pushes
\* returns None and leaves everything pushed so far queued; push number C+1
\* returns Some holding exactly the C values pushed before it, in order, and
\* leaves the buffer holding exactly the value just pushed.
C8_FirstDrain ==
  /\ (Len(jb_pushed) \in 1..jb_capacity =>
        ~jb_ret.some /\ jb_buffer = jb_pushed)
  /\ (Len(jb_pushed) = jb_capacity + 1 =>
        /\ jb_ret = Some(SubSeq(jb_pushed, 1, jb_capacity))
        /\ jb_buffer = <<jb_pushed[jb_capacity + 1]>>)

\* push number C+1 of a buffer of capacity C >= 2 has returned a batch
C8_Witness ==
  /\ jb_capacity >= 2
  /\ Len(jb_pushed) = jb_capacity + 1
  /\ jb_ret.some
  /\ Len(jb_ret.items) = jb_capacity

\* C9: a push on a buffer with occupancy >= C returns every queued value in
\* push order and leaves only the new value; a push on a buffer with occupancy
\* < C returns nothing and appends the value; so the returned batches followed
\* by the buffer are always the sequence of pushed values.
C9_PushAndDrain ==
  /\ jb_drained \o jb_buffer = jb_pushed
  /\ Len(jb_pushed) >= 1 =>
       LET value == jb_pushed[Len(jb_pushed)] IN
         IF Len(jb_prev) >= jb_capacity
           THEN jb_ret = Some(jb_prev) /\ jb_buffer = <<value>>
           ELSE jb_ret = None /\ jb_buffer = Append(jb_prev, value)

\* a batch of two or more values was returned and later pushes went on
C9_Witness ==
  /\ Len(jb_drained) >= 2
  /\ Len(jb_buffer) >= 2
  /\ jb_drained # <<>> /\ jb_drained[1] # jb_drained[2]

\* C10 as stated: the number of queued values never exceeds the capacity, for
\* every capacity C >= 0.
C10_Bounded == Len(jb_buffer) <= jb_capacity

====
